---- MODULE Spec2Model ----
(***************************************************************************)
(* playtools: the interactive flow controller (model.Update of main.go),   *)
(* the background invocation (invokeLambdaCmd / invokeLambda) and the      *)
(* session guard (checkSSOSession).                                        *)
(*                                                                         *)
(* The bubbletea runtime is modelled as: one event is handed to Update at  *)
(* a time; the command Update returns is stored in cmd and started at      *)
(* once (tea.Quit ends the program, the batch of a valid confirm puts the  *)
(* invocation in flight and keeps the spinner ticking).  The widgets of    *)
(* the bubbles library are modelled by the part of their state that the    *)
(* controller reads: the cursor and filter of a list, the text of the      *)
(* text input.  Filter matches are applied synchronously.                  *)
(***************************************************************************)
EXTENDS Integers, Sequences, FiniteSets, TLC

\* ------------------------------------------------------------------ bounds
\* longest text the user types into the prompt (the widget allows CharLimit)
MaxInputLen == 2
\* longest text the user types into a list filter
MaxFilterLen == 1

\* --------------------------------------------------------------- constants
devEnv == "dev"
prodEnv == "prod"
ActionProcess == "process"
ActionComplete == "complete"
ActionStart == "start"
CharLimit == 10

EnvironmentScreen == "EnvironmentScreen"
ActionScreen == "ActionScreen"
LoadingScreen == "LoadingScreen"
OutputScreen == "OutputScreen"
PromptScreen == "PromptScreen"
Screen == {EnvironmentScreen, ActionScreen, LoadingScreen, OutputScreen, PromptScreen}

profileMap == [e \in {devEnv, prodEnv} |->
                 IF e = devEnv THEN "platform-nonprod-engineer" ELSE "platform-prod-engineer"]

sweepstakeFunctionName(env) == "imx-rewards-" \o env \o "-sweepstake-rewards-calculator"

\* the nil error, the nil pointer
NoErr == "<nil>"
NilPtr == <<>>

\* ------------------------------------------------------------------ inputs
\* characters the user types; none of them occurs in the title of a list item
Digits == {"0", "5"}
Runes == Digits \cup {"-", "b"}
Keys == {"ctrl+c", "q", "enter", "up", "down", "/", "esc", "backspace"} \cup Runes
\* what the user sets out to type into the prompt: positive numbers, zero,
\* negative numbers, text that is no number
Entries == {<<"5">>, <<"5", "0">>, <<"5", "0", "0">>, <<"0">>, <<"-", "5">>, <<"-", "5", "0">>,
            <<"b">>, <<"5", "b">>}
\* the texts the prompt holds on the way: the prefixes of the entries
TypedTexts == {t \in UNION {{SubSeq(e, 1, n) : n \in 0..Len(e)} : e \in Entries} :
                 Len(t) <= MaxInputLen}
\* keys the user presses on a screen ("/" opens the filter of a list; on the
\* prompt a character is typed when it continues an entry)
KeysOn(screen, text) ==
  IF screen = PromptScreen
  THEN (Keys \ ({"/"} \cup Runes)) \cup {r \in Runes : Append(text, r) \in TypedTexts}
  ELSE Keys
\* terminal sizes reported by the terminal
Sizes == {<<80, 24>>}
\* frame size of docStyle, Margin(1, 2): horizontal 4, vertical 2
FrameH == 4
FrameV == 2

\* ------------------------------------------------------------ list widget
envItems ==
  << [title |-> "Development", desc |-> "Use development environment", action |-> devEnv,
      letters |-> {"d", "e", "v", "l", "o", "p", "m", "n", "t"}],
     [title |-> "Production", desc |-> "Use production environment", action |-> prodEnv,
      letters |-> {"p", "r", "o", "d", "u", "c", "t", "i", "n"}] >>

actionItems ==
  << [title |-> "Start Sweepstake", desc |-> "Play new sweepstake, overriding existing ones",
      action |-> ActionStart,
      letters |-> {"s", "t", "a", "r", " ", "w", "e", "p", "k"}],
     [title |-> "Process Sweepstake",
      desc |-> "Process sweepstake calculation without distributing rewards",
      action |-> ActionProcess,
      letters |-> {"p", "r", "o", "c", "e", "s", " ", "w", "t", "a", "k"}],
     [title |-> "Complete Sweepstake",
      desc |-> "Complete sweepstake calculation and distribute rewards",
      action |-> ActionComplete,
      letters |-> {"c", "o", "m", "p", "l", "e", "t", " ", "s", "w", "a", "k"}] >>

\* list.New(items, delegate, 0, 0): cursor on the first item, no filter
NewList == [cursor |-> 0, filterState |-> "Unfiltered", filterValue |-> <<>>,
            width |-> 0, height |-> 0]

RECURSIVE SelectSeq2(_, _, _)
\* the items of s, in order, that satisfy Test (a set of admissible items)
SelectSeq2(s, ok, i) ==
  IF i > Len(s) THEN <<>>
  ELSE (IF s[i] \in ok THEN <<s[i]>> ELSE <<>>) \o SelectSeq2(s, ok, i + 1)

\* an item is kept by a filter when every typed character occurs in its title
FilterMatches(it, f) == \A i \in 1..Len(f) : f[i] \in it.letters

\* list.VisibleItems
VisibleItems(l, items) ==
  IF l.filterState = "Unfiltered" \/ l.filterValue = <<>> THEN items
  ELSE SelectSeq2(items, {items[i] : i \in {j \in 1..Len(items) : FilterMatches(items[j], l.filterValue)}}, 1)

\* list.SelectedItem, with the ok of the type assertion .(item)
SelectedItem(l, items) ==
  LET vis == VisibleItems(l, items) IN
  IF l.cursor < Len(vis) THEN [ok |-> TRUE, item |-> vis[l.cursor + 1]]
  ELSE [ok |-> FALSE, item |-> items[1]]

\* list.SetSize
ListSetSize(l, w, h) == [l EXCEPT !.width = w, !.height = h]


\* list.Update: the keys of the default key map that change what the controller
\* reads, and the command returned (the list's own quit binding on esc)
ListUpdate(l, items, msg) ==
  IF msg.type # "KeyMsg" THEN [l |-> l, cmd |-> "nil"]
  ELSE IF l.filterState = "Filtering" THEN
    CASE msg.key = "esc" ->
           [l |-> [l EXCEPT !.filterState = "Unfiltered", !.filterValue = <<>>], cmd |-> "nil"]
      [] msg.key \in Runes /\ Len(l.filterValue) < MaxFilterLen ->
           [l |-> [l EXCEPT !.filterValue = Append(@, msg.key), !.cursor = 0], cmd |-> "nil"]
      [] msg.key = "backspace" /\ l.filterValue # <<>> ->
           [l |-> [l EXCEPT !.filterValue = SubSeq(@, 1, Len(@) - 1), !.cursor = 0],
            cmd |-> "nil"]
      [] OTHER -> [l |-> l, cmd |-> "nil"]
  ELSE
    CASE msg.key = "up" ->
           [l |-> [l EXCEPT !.cursor = IF @ > 0 THEN @ - 1 ELSE @], cmd |-> "nil"]
      [] msg.key = "down" ->
           [l |-> [l EXCEPT !.cursor = IF @ < Len(items) - 1 THEN @ + 1 ELSE @], cmd |-> "nil"]
      [] msg.key = "/" ->
           [l |-> [l EXCEPT !.filterState = "Filtering", !.filterValue = <<>>, !.cursor = 0],
            cmd |-> "blink"]
      [] msg.key = "esc" -> [l |-> l, cmd |-> "quit"]
      [] OTHER -> [l |-> l, cmd |-> "nil"]

\* ------------------------------------------------------- text input widget
\* textinput.Update: a typed character is appended up to the limit, backspace
\* deletes the last one; the cursor stays at the end
TextInputUpdate(v, msg) ==
  IF msg.type # "KeyMsg" THEN v
  ELSE CASE msg.key \in Runes /\ Len(v) < CharLimit -> Append(v, msg.key)
         [] msg.key = "backspace" /\ v # <<>> -> SubSeq(v, 1, Len(v) - 1)
         [] OTHER -> v

\* ------------------------------------------------------------ strconv.Atoi
DigitVal(c) == IF c = "0" THEN 0 ELSE 5

RECURSIVE ParseDigits(_, _)
\* the value of a non-empty run of decimal digits, acc the value read so far
ParseDigits(s, acc) ==
  IF s = <<>> THEN acc ELSE ParseDigits(Tail(s), acc * 10 + DigitVal(Head(s)))

\* strconv.Atoi: an optional sign, then one or more digits, nothing else.
\* (At most CharLimit digits are typed, so the value fits an int.)
Atoi(s) ==
  LET signed == s # <<>> /\ Head(s) \in {"+", "-"}
      body == IF signed THEN Tail(s) ELSE s
  IN IF body = <<>> \/ \E i \in 1..Len(body) : body[i] \notin Digits
     THEN [err |-> TRUE, val |-> 0]
     ELSE [err |-> FALSE,
           val |-> IF signed /\ Head(s) = "-" THEN 0 - ParseDigits(body, 0)
                   ELSE ParseDigits(body, 0)]

\* ----------------------------------------------------------------- payload
\* EventPayload; a pointer field is NilPtr or <<value>>
EventPayload(action, quest, duration) ==
  [Action |-> action, DryRun |-> FALSE, SweepstakeQuestID |-> quest, BatchSize |-> NilPtr,
   DurationMinutes |-> duration, SweepstakeOverrides |-> NilPtr]

\* BuildPayload with the test of line 206 cut to the complete action
BuildPayloadCompleteOnly(selectedAction, id) ==
  IF selectedAction = ActionComplete
  THEN EventPayload(selectedAction, <<id>>, NilPtr)
  ELSE EventPayload(selectedAction, NilPtr, <<id>>)

\* the payload built by a valid confirm on the prompt (main.go 205-218)
BuildPayload(selectedAction, id) ==
  IF selectedAction = ActionComplete \/ selectedAction = ActionProcess
  THEN EventPayload(selectedAction, <<id>>, NilPtr)
  ELSE EventPayload(selectedAction, NilPtr, <<id>>)

\* InvalidInput with id < 0 for id <= 0
InvalidInputNegativeOnly(idStr) == LET r == Atoi(idStr) IN r.err \/ r.val < 0

\* the validation of the prompt text (main.go 198-200)
InvalidInput(idStr) == LET r == Atoi(idStr) IN r.err \/ r.val <= 0

\* json.Marshal of an EventPayload: sweepstake_quest_id is always written (null
\* when nil), the omitempty fields only when set
JsonMarshal(p) ==
  "{\"action\":\"" \o p.Action \o "\",\"dry_run\":" \o (IF p.DryRun THEN "true" ELSE "false")
  \o ",\"sweepstake_quest_id\":"
  \o (IF p.SweepstakeQuestID = NilPtr THEN "null" ELSE ToString(p.SweepstakeQuestID[1]))
  \o (IF p.BatchSize = NilPtr THEN "" ELSE ",\"batch_size\":" \o ToString(p.BatchSize[1]))
  \o (IF p.DurationMinutes = NilPtr THEN ""
      ELSE ",\"duration_minutes\":" \o ToString(p.DurationMinutes[1]))
  \o "}"

\* json.MarshalIndent(p, "", "  ") of an EventPayload: the same fields, one to a
\* line, indented by two spaces
JsonMarshalIndent(p) ==
  "{\n  \"action\": \"" \o p.Action \o "\",\n  \"dry_run\": "
  \o (IF p.DryRun THEN "true" ELSE "false")
  \o ",\n  \"sweepstake_quest_id\": "
  \o (IF p.SweepstakeQuestID = NilPtr THEN "null" ELSE ToString(p.SweepstakeQuestID[1]))
  \o (IF p.BatchSize = NilPtr THEN "" ELSE ",\n  \"batch_size\": " \o ToString(p.BatchSize[1]))
  \o (IF p.DurationMinutes = NilPtr THEN ""
      ELSE ",\n  \"duration_minutes\": " \o ToString(p.DurationMinutes[1]))
  \o "\n}"

\* ------------------------------------------------- the external world
\* What the collaborators answer during one invocation: is the aws CLI on the
\* PATH, does get-caller-identity exit 0, does sso login exit 0, does the AWS
\* configuration load, does the remote call return, is its response a JSON
\* object, does it carry a function error, and its log blob (none, valid
\* base64, invalid base64).  An answer that is never asked for is fixed, so
\* that two worlds differ only when the invocation can tell them apart.
AllWorlds ==
  [lookPath : BOOLEAN, identity : BOOLEAN, login : BOOLEAN, config : BOOLEAN,
   invoke : BOOLEAN, validJSON : BOOLEAN, functionError : BOOLEAN,
   logResult : {"nil", "valid", "invalid"}]

Asked(w) ==
  /\ (~w.lookPath => w.identity)
  /\ (w.identity => w.login)
  /\ (~(w.lookPath /\ w.login) => w.config)
  /\ (~(w.lookPath /\ w.login /\ w.config) => w.invoke)
  /\ (~(w.lookPath /\ w.login /\ w.config /\ w.invoke)
        => w.validJSON /\ ~w.functionError /\ w.logResult = "nil")

Worlds == {w \in AllWorlds : Asked(w)}

World(lookPath, identity, login, config, invoke, validJSON, functionError, logResult) ==
  [lookPath |-> lookPath, identity |-> identity, login |-> login, config |-> config,
   invoke |-> invoke, validJSON |-> validJSON, functionError |-> functionError,
   logResult |-> logResult]

\* the worlds the whole program is run against: the aws CLI is missing; the
\* login fails; the session is valid and the function answers JSON with logs;
\* the login succeeds and the function answers a function error, a body that
\* is no JSON and a log blob that does not decode
ProgramWorlds ==
  { World(FALSE, TRUE, TRUE, TRUE, TRUE, TRUE, FALSE, "nil"),
    World(TRUE, FALSE, FALSE, TRUE, TRUE, TRUE, FALSE, "nil"),
    World(TRUE, TRUE, TRUE, TRUE, TRUE, TRUE, FALSE, "valid"),
    World(TRUE, FALSE, TRUE, TRUE, TRUE, FALSE, TRUE, "invalid") }

\* what the external commands and the remote function print
LoginOutput == "sso login output"
ExitError == "exit status 1"
ResponseBody(w) == IF w.validJSON THEN "{\"ok\":true}" ELSE "not json"
FunctionErrorText == "Unhandled"
DecodedLogs == "START RequestId END RequestId"

\* checkSSOSession that returns no error when the login fails
checkSSOSessionIgnoresLoginFailure(profile, output, w) ==
  IF ~w.lookPath
  THEN [err |-> "AWS CLI not found", output |-> output, calls |-> <<"LookPath aws">>]
  ELSE IF w.identity
  THEN [err |-> NoErr, output |-> output,
        calls |-> <<"LookPath aws", "aws sts get-caller-identity --profile " \o profile>>]
  ELSE [err |-> NoErr,
        output |-> Append(output, "SSO session expired. Logging in..."),
        calls |-> <<"LookPath aws", "aws sts get-caller-identity --profile " \o profile,
                    "aws sso login --profile " \o profile>>]

\* checkSSOSession that logs in whatever get-caller-identity answers
checkSSOSessionAlwaysLogin(profile, output, w) ==
  IF ~w.lookPath
  THEN [err |-> "AWS CLI not found", output |-> output, calls |-> <<"LookPath aws">>]
  ELSE LET out1 == Append(output, "SSO session expired. Logging in...")
           ran == <<"LookPath aws", "aws sts get-caller-identity --profile " \o profile,
                    "aws sso login --profile " \o profile>>
       IN IF ~w.login
          THEN [err |-> "SSO login failed: " \o ExitError \o "\nOutput: " \o LoginOutput,
                output |-> out1, calls |-> ran]
          ELSE [err |-> NoErr, output |-> Append(out1, "SSO login successful"), calls |-> ran]

\* ------------------------------------------------------------ session guard
\* checkSSOSession (main.go 403-419): the error returned, the output lines
\* with what was appended, and the external commands run, in order
checkSSOSession(profile, output, w) ==
  IF ~w.lookPath
  THEN [err |-> "AWS CLI not found", output |-> output, calls |-> <<"LookPath aws">>]
  ELSE IF w.identity
  THEN [err |-> NoErr, output |-> output,
        calls |-> <<"LookPath aws", "aws sts get-caller-identity --profile " \o profile>>]
  ELSE LET out1 == Append(output, "SSO session expired. Logging in...")
           ran == <<"LookPath aws", "aws sts get-caller-identity --profile " \o profile,
                    "aws sso login --profile " \o profile>>
       IN IF ~w.login
          THEN [err |-> "SSO login failed: " \o ExitError \o "\nOutput: " \o LoginOutput,
                output |-> out1, calls |-> ran]
          ELSE [err |-> NoErr, output |-> Append(out1, "SSO login successful"), calls |-> ran]

\* decodeBase64 that returns what it could read of a blob that does not decode
decodeBase64Lenient(w) == [err |-> NoErr, decoded |-> DecodedLogs]

\* decodeBase64 (main.go 394-401)
decodeBase64(w) ==
  IF w.logResult = "valid" THEN [err |-> NoErr, decoded |-> DecodedLogs]
  ELSE [err |-> "failed to decode base64: illegal base64 data", decoded |-> ""]

\* ---------------------------------------------------------- remote invoker
\* ProcessResponse that shows a response only when it is JSON
ProcessResponseJSONOnly(output, w) ==
  LET o1 == Append(output, "Lambda invocation successful!")
      o2 == IF w.validJSON THEN Append(o1, "Response: " \o ResponseBody(w)) ELSE o1
      o3 == IF w.functionError THEN Append(o2, "Function error: " \o FunctionErrorText) ELSE o2
      dec == decodeBase64(w)
  IN IF w.logResult = "nil" THEN [output |-> o3, logs |-> ""]
     ELSE IF dec.err # NoErr
     THEN [output |-> Append(o3, "Error decoding logs: " \o dec.err), logs |-> ""]
     ELSE [output |-> o3, logs |-> dec.decoded]

\* ProcessResponse that stops at a function error, before the logs
ProcessResponseStopsAtFunctionError(output, w) ==
  LET o1 == Append(output, "Lambda invocation successful!")
      o2 == Append(o1, IF w.validJSON THEN "Response: " \o ResponseBody(w)
                       ELSE "Raw response: " \o ResponseBody(w))
      dec == decodeBase64(w)
  IN IF w.functionError
     THEN [output |-> Append(o2, "Function error: " \o FunctionErrorText), logs |-> ""]
     ELSE IF w.logResult = "nil" THEN [output |-> o2, logs |-> ""]
     ELSE IF dec.err # NoErr
     THEN [output |-> Append(o2, "Error decoding logs: " \o dec.err), logs |-> ""]
     ELSE [output |-> o2, logs |-> dec.decoded]

\* the part of invokeLambda after a successful remote call (main.go 365-391)
ProcessResponse(output, w) ==
  LET o1 == Append(output, "Lambda invocation successful!")
      o2 == Append(o1, IF w.validJSON THEN "Response: " \o ResponseBody(w)
                       ELSE "Raw response: " \o ResponseBody(w))
      o3 == IF w.functionError THEN Append(o2, "Function error: " \o FunctionErrorText) ELSE o2
      dec == decodeBase64(w)
  IN IF w.logResult = "nil" THEN [output |-> o3, logs |-> ""]
     ELSE IF dec.err # NoErr
     THEN [output |-> Append(o3, "Error decoding logs: " \o dec.err), logs |-> ""]
     ELSE [output |-> o3, logs |-> dec.decoded]

\* invokeLambda that makes the remote call a second time when the first fails
invokeLambdaRetries(env, payload, w) ==
  LET profile == profileMap[env]
      functionName == sweepstakeFunctionName(env)
      o1 == <<"Environment: " \o env, "Payload: " \o JsonMarshalIndent(payload)>>
      sso == checkSSOSession(profile, o1, w)
      remote == "Invoke " \o functionName \o " " \o JsonMarshal(payload)
  IN IF sso.err # NoErr
     THEN [output |-> sso.output, logs |-> "", err |-> sso.err, calls |-> sso.calls]
     ELSE IF ~w.config
     THEN [output |-> sso.output, logs |-> "",
           err |-> "failed to load AWS config: no such profile",
           calls |-> Append(sso.calls, "LoadDefaultConfig " \o profile)]
     ELSE IF ~w.invoke
     THEN [output |-> sso.output, logs |-> "",
           err |-> "failed to invoke Lambda: request failed",
           calls |-> sso.calls \o <<"LoadDefaultConfig " \o profile, remote, remote>>]
     ELSE LET r == ProcessResponse(sso.output, w)
          IN [output |-> r.output, logs |-> r.logs, err |-> NoErr,
              calls |-> sso.calls \o <<"LoadDefaultConfig " \o profile, remote>>]

\* invokeLambda (main.go 327-392), started with the empty output and logs of
\* invokeLambdaCmd
invokeLambda(env, payload, w) ==
  LET profile == profileMap[env]
      functionName == sweepstakeFunctionName(env)
      o1 == <<"Environment: " \o env, "Payload: " \o JsonMarshalIndent(payload)>>
      sso == checkSSOSession(profile, o1, w)
      remote == "Invoke " \o functionName \o " " \o JsonMarshal(payload)
  IN IF sso.err # NoErr
     THEN [output |-> sso.output, logs |-> "", err |-> sso.err, calls |-> sso.calls]
     ELSE IF ~w.config
     THEN [output |-> sso.output, logs |-> "",
           err |-> "failed to load AWS config: no such profile",
           calls |-> Append(sso.calls, "LoadDefaultConfig " \o profile)]
     ELSE IF ~w.invoke
     THEN [output |-> sso.output, logs |-> "",
           err |-> "failed to invoke Lambda: request failed",
           calls |-> sso.calls \o <<"LoadDefaultConfig " \o profile, remote>>]
     ELSE LET r == ProcessResponse(sso.output, w)
          IN [output |-> r.output, logs |-> r.logs, err |-> NoErr,
              calls |-> sso.calls \o <<"LoadDefaultConfig " \o profile, remote>>]

\* invokeLambdaCmd that delivers no output lines with an error
invokeLambdaCmdErrorOnly(env, payload, w) ==
  LET r == invokeLambda(env, payload, w)
  IN [type |-> "lambdaResult", output |-> IF r.err = NoErr THEN r.output ELSE <<>>,
      logs |-> r.logs, err |-> r.err]

\* invokeLambdaCmd (main.go 318-325): the message the command delivers
invokeLambdaCmd(env, payload, w) ==
  LET r == invokeLambda(env, payload, w)
  IN [type |-> "lambdaResult", output |-> r.output, logs |-> r.logs, err |-> r.err]

\* ------------------------------------------------------------- controller
VARIABLES
  currentScreen,   \* model.currentScreen
  promptMessage,   \* model.promptMessage
  promptQuestion,  \* model.promptQuestion
  promptInput,     \* the text of model.promptInput, a sequence of characters
  envList,         \* model.envList
  actionList,      \* model.actionList
  selectedEnv,     \* model.selectedEnv
  selectedAction,  \* model.selectedAction
  lambdaOutput,    \* model.lambdaOutput
  lambdaLogs,      \* model.lambdaLogs
  lambdaErr,       \* model.lambdaErr
  width, height,   \* model.width, model.height
  cmd,             \* the command returned by the last Update
  lastMsg,         \* the message handed to the last Update: its type or, of a key, the key
  quit,            \* tea.Quit was returned: the program has ended
  ticking,         \* a spinner tick is scheduled
  pending,         \* invocations dispatched whose result is not yet delivered
  run              \* the last invocation that ran: what it was given and did

modelVars == <<currentScreen, promptMessage, promptQuestion, promptInput, envList, actionList,
               selectedEnv, selectedAction, lambdaOutput, lambdaLogs, lambdaErr, width, height>>
vars == <<currentScreen, promptMessage, promptQuestion, promptInput, envList, actionList,
          selectedEnv, selectedAction, lambdaOutput, lambdaLogs, lambdaErr, width, height,
          cmd, lastMsg, quit, ticking, pending, run>>

\* the model value Update receives
M ==
  [currentScreen |-> currentScreen, promptMessage |-> promptMessage,
   promptQuestion |-> promptQuestion, promptInput |-> promptInput, envList |-> envList,
   actionList |-> actionList, selectedEnv |-> selectedEnv, selectedAction |-> selectedAction,
   lambdaOutput |-> lambdaOutput, lambdaLogs |-> lambdaLogs, lambdaErr |-> lambdaErr,
   width |-> width, height |-> height]

\* initialModel (main.go 108-147)
initialModel ==
  [currentScreen |-> EnvironmentScreen, promptMessage |-> "", promptQuestion |-> "",
   promptInput |-> <<>>, envList |-> NewList, actionList |-> NewList, selectedEnv |-> "",
   selectedAction |-> "", lambdaOutput |-> <<>>, lambdaLogs |-> "", lambdaErr |-> NoErr,
   width |-> 0, height |-> 0]

\* commands: nil, tea.Quit, textinput.Blink, the spinner's next tick, and the
\* batch of a valid confirm (spinner tick and invokeLambdaCmd(env, payload))
NilCmd == [kind |-> "nil", invoke |-> <<>>]
QuitCmd == [kind |-> "quit", invoke |-> <<>>]
BlinkCmd == [kind |-> "blink", invoke |-> <<>>]
TickCmd == [kind |-> "tick", invoke |-> <<>>]
BatchCmd(env, payload) == [kind |-> "batch", invoke |-> <<[env |-> env, payload |-> payload]>>]
WidgetCmd(c) == [kind |-> c, invoke |-> <<>>]

\* messages
KeyMsg(k) == [type |-> "KeyMsg", key |-> k]
WindowSizeMsg(w, h) == [type |-> "WindowSizeMsg", Width |-> w, Height |-> h]
SpinnerTickMsg == [type |-> "spinner.TickMsg"]

\* main.go 251-262: the message goes to the widget of the current screen
UpdateWidget(m, msg) ==
  CASE m.currentScreen = EnvironmentScreen ->
         LET r == ListUpdate(m.envList, envItems, msg)
         IN [m |-> [m EXCEPT !.envList = r.l], cmd |-> WidgetCmd(r.cmd)]
    [] m.currentScreen = ActionScreen ->
         LET r == ListUpdate(m.actionList, actionItems, msg)
         IN [m |-> [m EXCEPT !.actionList = r.l], cmd |-> WidgetCmd(r.cmd)]
    [] m.currentScreen = PromptScreen ->
         [m |-> [m EXCEPT !.promptInput = TextInputUpdate(@, msg)], cmd |-> NilCmd]
    [] OTHER -> [m |-> m, cmd |-> NilCmd]

\* main.go 173-178: enter on the environment screen
ConfirmEnvironment(m) ==
  LET i == SelectedItem(m.envList, envItems)
  IN IF i.ok
     THEN [m |-> [m EXCEPT !.selectedEnv = i.item.action, !.currentScreen = ActionScreen],
           cmd |-> NilCmd]
     ELSE [m |-> m, cmd |-> NilCmd]

\* main.go 188-192: the prompt label of an action
PromptQuestion(action) ==
  IF action = ActionProcess \/ action = ActionComplete
  THEN "Please enter sweepstake quest ID"
  ELSE "Please enter sweepstake duration in minutes"

\* ConfirmAction that leaves the validation message and the text as they are
ConfirmActionKeepsPrompt(m) ==
  LET i == SelectedItem(m.actionList, actionItems)
  IN IF i.ok
     THEN [m |-> [m EXCEPT !.selectedAction = i.item.action,
                           !.currentScreen = PromptScreen,
                           !.promptQuestion = PromptQuestion(i.item.action)],
           cmd |-> BlinkCmd]
     ELSE [m |-> m, cmd |-> NilCmd]

\* main.go 180-194: enter on the action screen
ConfirmAction(m) ==
  LET i == SelectedItem(m.actionList, actionItems)
  IN IF i.ok
     THEN [m |-> [m EXCEPT !.selectedAction = i.item.action,
                           !.currentScreen = PromptScreen,
                           !.promptMessage = "",
                           !.promptQuestion = PromptQuestion(i.item.action),
                           !.promptInput = <<>>],
           cmd |-> BlinkCmd]
     ELSE [m |-> m, cmd |-> NilCmd]

\* ConfirmPrompt that shows the loading screen for an invalid text as well
ConfirmPromptLoadsAnyway(m) ==
  IF InvalidInput(m.promptInput)
  THEN [m |-> [m EXCEPT !.promptMessage = "Please enter a valid positive number",
                        !.currentScreen = LoadingScreen],
        cmd |-> NilCmd]
  ELSE [m |-> [m EXCEPT !.currentScreen = LoadingScreen],
        cmd |-> BatchCmd(m.selectedEnv, BuildPayload(m.selectedAction, Atoi(m.promptInput).val))]

\* ConfirmPrompt without the move to the loading screen of line 220
ConfirmPromptStays(m) ==
  IF InvalidInput(m.promptInput)
  THEN [m |-> [m EXCEPT !.promptMessage = "Please enter a valid positive number"],
        cmd |-> NilCmd]
  ELSE [m |-> m,
        cmd |-> BatchCmd(m.selectedEnv, BuildPayload(m.selectedAction, Atoi(m.promptInput).val))]

\* main.go 196-224: enter on the prompt screen
ConfirmPrompt(m) ==
  IF InvalidInput(m.promptInput)
  THEN [m |-> [m EXCEPT !.promptMessage = "Please enter a valid positive number"],
        cmd |-> NilCmd]
  ELSE [m |-> [m EXCEPT !.currentScreen = LoadingScreen],
        cmd |-> BatchCmd(m.selectedEnv, BuildPayload(m.selectedAction, Atoi(m.promptInput).val))]

\* KeyIgnored without the test of line 157
KeyIgnoredNever(m) == FALSE

\* the quit keys without ctrl+c
IsQuitKeyQOnly(key) == key = "q"

\* main.go 162: the keys that quit
IsQuitKey(key) == key \in {"ctrl+c", "q"}

\* main.go 155-159: is the key dropped before the key switch
KeyIgnored(m) == m.currentScreen = LoadingScreen

\* main.go 165-169: does "b" leave the screen
BackApplies(m) == m.currentScreen = OutputScreen

\* Back that returns to the environment screen
BackToEnvironment(m) == [m EXCEPT !.currentScreen = EnvironmentScreen]

\* Back that also clears the selected action and the stored result
BackDiscards(m) ==
  [m EXCEPT !.currentScreen = ActionScreen, !.selectedAction = "", !.lambdaOutput = <<>>,
            !.lambdaLogs = "", !.lambdaErr = NoErr]

\* Back that also puts the cursor of the action list on its first item
BackResetsSelection(m) ==
  [m EXCEPT !.currentScreen = ActionScreen, !.actionList.cursor = 0]

\* main.go 167: what "b" does where it applies
Back(m) == [m EXCEPT !.currentScreen = ActionScreen]

\* main.go 155-226, 251-262: a key message
UpdateKey(m, msg) ==
  IF KeyIgnored(m) THEN [m |-> m, cmd |-> NilCmd]
  ELSE CASE IsQuitKey(msg.key) -> [m |-> m, cmd |-> QuitCmd]
         [] msg.key = "b" /\ BackApplies(m) -> [m |-> Back(m), cmd |-> NilCmd]
         [] msg.key = "enter" /\ m.currentScreen = EnvironmentScreen -> ConfirmEnvironment(m)
         [] msg.key = "enter" /\ m.currentScreen = ActionScreen -> ConfirmAction(m)
         [] msg.key = "enter" /\ m.currentScreen = PromptScreen -> ConfirmPrompt(m)
         [] OTHER -> UpdateWidget(m, msg)

\* UpdateResult that stores the result and stays on the loading screen
UpdateResultStays(m, msg) ==
  [m EXCEPT !.lambdaOutput = msg.output, !.lambdaLogs = msg.logs, !.lambdaErr = msg.err]

\* UpdateResult that appends to what is stored
UpdateResultAppends(m, msg) ==
  [m EXCEPT !.lambdaOutput = @ \o msg.output, !.lambdaLogs = @ \o msg.logs,
            !.lambdaErr = msg.err, !.currentScreen = OutputScreen]

\* main.go 231-236: the invocation-complete message
UpdateResult(m, msg) ==
  [m EXCEPT !.lambdaOutput = msg.output, !.lambdaLogs = msg.logs, !.lambdaErr = msg.err,
            !.currentScreen = OutputScreen]

\* main.go 238-243 and 251-262: a resize
UpdateResize(m, msg) ==
  UpdateWidget([m EXCEPT !.width = msg.Width, !.height = msg.Height,
                         !.envList = ListSetSize(@, msg.Width - FrameH, msg.Height - FrameV),
                         !.actionList = ListSetSize(@, msg.Width - FrameH, msg.Height - FrameV)],
               msg)

\* model.Update (main.go 153-263): the new model and the command
Update(m, msg) ==
  CASE msg.type = "KeyMsg" -> UpdateKey(m, msg)
    [] msg.type = "tickMsg" -> [m |-> m, cmd |-> NilCmd]
    [] msg.type = "lambdaResult" -> [m |-> UpdateResult(m, msg), cmd |-> NilCmd]
    [] msg.type = "WindowSizeMsg" -> UpdateResize(m, msg)
    [] msg.type = "spinner.TickMsg" -> [m |-> m, cmd |-> TickCmd]
    [] OTHER -> UpdateWidget(m, msg)

\* ---------------------------------------------------------------- runtime
\* p := tea.NewProgram(initialModel()); Init returns no command (main.go 149-151, 433-440)
Init ==
  /\ currentScreen = initialModel.currentScreen
  /\ promptMessage = initialModel.promptMessage
  /\ promptQuestion = initialModel.promptQuestion
  /\ promptInput = initialModel.promptInput
  /\ envList = initialModel.envList
  /\ actionList = initialModel.actionList
  /\ selectedEnv = initialModel.selectedEnv
  /\ selectedAction = initialModel.selectedAction
  /\ lambdaOutput = initialModel.lambdaOutput
  /\ lambdaLogs = initialModel.lambdaLogs
  /\ lambdaErr = initialModel.lambdaErr
  /\ width = initialModel.width
  /\ height = initialModel.height
  /\ cmd = NilCmd
  /\ lastMsg = "none"
  /\ quit = FALSE
  /\ ticking = FALSE
  /\ pending = <<>>
  /\ run = <<>>

\* what is kept of a message: of a key that the key switch of Update names,
\* the key; of another key, that it was a key; otherwise the type
MsgName(msg) ==
  IF msg.type # "KeyMsg" THEN msg.type
  ELSE IF msg.key \in {"ctrl+c", "q", "b", "enter"} THEN msg.key ELSE "key"

\* the event loop hands msg to Update, keeps the model it returns and starts
\* the command it returns
Dispatch(msg) ==
  LET r == Update(M, msg) IN
  /\ currentScreen' = r.m.currentScreen
  /\ promptMessage' = r.m.promptMessage
  /\ promptQuestion' = r.m.promptQuestion
  /\ promptInput' = r.m.promptInput
  /\ envList' = r.m.envList
  /\ actionList' = r.m.actionList
  /\ selectedEnv' = r.m.selectedEnv
  /\ selectedAction' = r.m.selectedAction
  /\ lambdaOutput' = r.m.lambdaOutput
  /\ lambdaLogs' = r.m.lambdaLogs
  /\ lambdaErr' = r.m.lambdaErr
  /\ width' = r.m.width
  /\ height' = r.m.height
  /\ cmd' = r.cmd
  /\ lastMsg' = MsgName(msg)
  /\ quit' = (r.cmd.kind = "quit")
  /\ ticking' = (ticking \/ r.cmd.kind = "batch")
  /\ pending' = (IF msg.type = "lambdaResult" THEN Tail(pending) ELSE pending) \o r.cmd.invoke

\* the user presses a key
KeyPress ==
  /\ ~quit
  /\ \E k \in KeysOn(currentScreen, promptInput) : Dispatch(KeyMsg(k))
  /\ UNCHANGED run

\* the terminal reports its size
Resize ==
  /\ ~quit
  /\ \E sz \in Sizes : Dispatch(WindowSizeMsg(sz[1], sz[2]))
  /\ UNCHANGED run

\* a scheduled spinner tick arrives
SpinnerTick ==
  /\ ~quit
  /\ ticking
  /\ Dispatch(SpinnerTickMsg)
  /\ UNCHANGED run

\* what is recorded of an invocation that has run: what it was given, what
\* the world answered, the external commands it ran, the error of the
\* session guard and the error of the invocation
RunRecord(c, w) ==
  [env |-> c.env, payload |-> c.payload, world |-> w,
   calls |-> invokeLambda(c.env, c.payload, w).calls,
   ssoErr |-> checkSSOSession(profileMap[c.env], <<>>, w).err,
   err |-> invokeLambda(c.env, c.payload, w).err]

\* the oldest dispatched invocation has run to its end in the background
\* against the world w and its lambdaResult is handed to Update
Complete(w) ==
  /\ Dispatch(invokeLambdaCmd(Head(pending).env, Head(pending).payload, w))
  /\ run' = <<RunRecord(Head(pending), w)>>

InvokeComplete ==
  /\ ~quit
  /\ pending # <<>>
  /\ \E w \in ProgramWorlds : Complete(w)

Next == KeyPress \/ Resize \/ SpinnerTick \/ InvokeComplete

Spec == Init /\ [][Next]_vars

\* ---------------------------------------------------------- fairness
\* the steps of InvokeComplete, by what they do to the invocations in flight:
\* the oldest one is taken off
Delivered == pending # <<>> /\ pending' = Tail(pending)

\* The command of a dispatched invocation runs in a goroutine of its own and
\* its message is handed to Update when it returns: an invocation that is in
\* flight is delivered.
FairSpec == Spec /\ WF_pending(Delivered)

\* ------------------------------------------- the invocation on its own
\* The invocation against every world: the program is taken to the end of a
\* prompt (an environment, an action, an entry, enter) and the invocation, if
\* one was dispatched, completes.
RECURSIVE Drive(_, _)
\* Update applied to the keys of a route, one after the other
Drive(r, keys) ==
  IF keys = <<>> THEN r ELSE Drive(Update(r.m, KeyMsg(Head(keys))), Tail(keys))

EnvRoutes == {<<"enter">>, <<"down", "enter">>}
ActionRoutes == {<<"enter">>, <<"down", "enter">>, <<"down", "down", "enter">>}
Routes == {e \o a \o t \o <<"enter">> : e \in EnvRoutes, a \in ActionRoutes,
                                        t \in Entries \cap TypedTexts}

InitInvoke ==
  \E route \in Routes :
    LET r == Drive([m |-> initialModel, cmd |-> NilCmd], route) IN
    /\ currentScreen = r.m.currentScreen
    /\ promptMessage = r.m.promptMessage
    /\ promptQuestion = r.m.promptQuestion
    /\ promptInput = r.m.promptInput
    /\ envList = r.m.envList
    /\ actionList = r.m.actionList
    /\ selectedEnv = r.m.selectedEnv
    /\ selectedAction = r.m.selectedAction
    /\ lambdaOutput = r.m.lambdaOutput
    /\ lambdaLogs = r.m.lambdaLogs
    /\ lambdaErr = r.m.lambdaErr
    /\ width = r.m.width
    /\ height = r.m.height
    /\ cmd = r.cmd
    /\ lastMsg = "enter"
    /\ quit = FALSE
    /\ ticking = (r.cmd.kind = "batch")
    /\ pending = r.cmd.invoke
    /\ run = <<>>

InvokeCompleteAny ==
  /\ ~quit
  /\ pending # <<>>
  /\ \E w \in Worlds : Complete(w)

NextInvoke == InvokeCompleteAny

SpecInvoke == InitInvoke /\ [][NextInvoke]_vars

\* ------------------------------------------------------------------ claims
ValidationMessage == "Please enter a valid positive number"

\* the texts of the prompt that are a positive number, and their values
PositiveTexts == {<<"5">>, <<"5", "0">>, <<"5", "0", "0">>}
EnteredNumber == IF promptInput = <<"5">> THEN 5 ELSE IF promptInput = <<"5", "0">> THEN 50 ELSE 500

KeyNames == {"ctrl+c", "q", "b", "enter", "key"}

\* C1: every payload of a dispatched invocation has, for the selected action
\* process or complete, the quest id set to the entered number and the duration
\* unset, and for start the duration set to the entered number and the quest id
\* unset.
C1_PayloadFields ==
  \A i \in 1..Len(pending) :
    LET p == pending[i].payload IN
    /\ promptInput \in PositiveTexts
    /\ p.Action = selectedAction
    /\ (selectedAction \in {ActionProcess, ActionComplete}
          => p.SweepstakeQuestID = <<EnteredNumber>> /\ p.DurationMinutes = NilPtr)
    /\ (selectedAction = ActionStart
          => p.DurationMinutes = <<EnteredNumber>> /\ p.SweepstakeQuestID = NilPtr)

C1_Witness ==
  /\ lastMsg = "enter"
  /\ cmd.kind = "batch"
  /\ selectedAction = ActionComplete
  /\ cmd.invoke[1].payload.SweepstakeQuestID = <<50>>
  /\ cmd.invoke[1].payload.DurationMinutes = NilPtr

\* C2: a confirm on the prompt whose text is no positive number leaves the
\* screen at the prompt, sets the validation message, returns no command and
\* puts no invocation in flight.
C2_InvalidInputStays ==
  [][(currentScreen = PromptScreen /\ promptInput \notin PositiveTexts /\ lastMsg' = "enter")
       => /\ currentScreen' = PromptScreen
          /\ promptMessage' = ValidationMessage
          /\ promptInput' = promptInput
          /\ cmd' = NilCmd
          /\ pending' = <<>>]_vars

C2_Witness ==
  /\ lastMsg = "enter"
  /\ currentScreen = PromptScreen
  /\ promptInput = <<"-", "5">>
  /\ promptMessage = ValidationMessage
  /\ pending = <<>>

\* C3: at most one invocation is in flight, whatever events are processed.
C3_OneInFlight == Len(pending) <= 1

C3_Witness ==
  /\ Len(pending) = 1
  /\ lastMsg = "enter"
  /\ cmd = NilCmd
  /\ lambdaOutput # <<>>

C5_LoadingIgnoresKeys ==
  [][(currentScreen = LoadingScreen /\ lastMsg' \in KeyNames)
       => UNCHANGED modelVars /\ cmd' = NilCmd /\ ~quit' /\ pending' = pending /\ pending # <<>>
          /\ UNCHANGED <<ticking, run>>]_vars

C5_Witness == currentScreen = LoadingScreen /\ lastMsg = "q" /\ ~quit /\ Len(pending) = 1

\* the result of the invocation that ran last
LastResult == invokeLambda(run[1].env, run[1].payload, run[1].world)

\* C6: when the result of an invocation is handed to Update, the screen becomes
\* the output screen and the stored output, logs and error are exactly those
\* of that invocation, whatever was stored before.
C6_ResultReplaces ==
  [][lastMsg' = "lambdaResult"
       => /\ pending # <<>>
          /\ run'[1].env = Head(pending).env
          /\ run'[1].payload = Head(pending).payload
          /\ currentScreen' = OutputScreen
          /\ lambdaOutput' = LastResult'.output
          /\ lambdaLogs' = LastResult'.logs
          /\ lambdaErr' = LastResult'.err
          /\ lambdaOutput'[1] = "Environment: " \o selectedEnv
          /\ lambdaOutput'[2] = "Payload: " \o JsonMarshalIndent(Head(pending).payload)]_vars

C6_Witness ==
  /\ currentScreen = OutputScreen
  /\ lastMsg = "lambdaResult"
  /\ run[1].payload.Action = ActionStart
  /\ lambdaErr = "AWS CLI not found"
  /\ lambdaLogs = ""
  /\ Len(lambdaOutput) = 2

\* C7 as stated: "b" on the output screen moves to the action screen and
\* discards the selected action and the stored result.
C7_BackDiscardsResult ==
  [][(currentScreen = OutputScreen /\ lastMsg' = "b")
       => /\ currentScreen' = ActionScreen
          /\ selectedAction' = ""
          /\ lambdaOutput' = <<>>
          /\ lambdaLogs' = ""
          /\ lambdaErr' = NoErr]_vars

\* C7 amended: "b" on the output screen moves to the action screen and leaves
\* the selected action, the prompt text and the stored result as they were.
C7_BackKeepsResult ==
  [][(currentScreen = OutputScreen /\ lastMsg' = "b")
       => /\ currentScreen' = ActionScreen
          /\ cmd' = NilCmd
          /\ selectedAction' = selectedAction /\ selectedAction' # ""
          /\ promptInput' = promptInput /\ promptInput' \in PositiveTexts
          /\ lambdaOutput' = lambdaOutput /\ lambdaOutput' # <<>>
          /\ lambdaLogs' = lambdaLogs
          /\ lambdaErr' = lambdaErr]_vars

C7_Witness ==
  /\ currentScreen = ActionScreen
  /\ lastMsg = "b"
  /\ selectedAction = ActionProcess
  /\ promptInput = <<"5">>
  /\ lambdaLogs = DecodedLogs
  /\ Len(lambdaOutput) = 4

\* C8: "b" on the output screen leaves the selected environment and both lists
\* as they were, and the items highlighted are those the invocation was made
\* with.
C8_BackKeepsSelection ==
  [][(currentScreen = OutputScreen /\ lastMsg' = "b")
       => /\ selectedEnv' = selectedEnv
          /\ envList' = envList
          /\ actionList' = actionList
          /\ SelectedItem(envList', envItems).ok
          /\ SelectedItem(envList', envItems).item.action = run[1].env
          /\ SelectedItem(actionList', actionItems).ok
          /\ SelectedItem(actionList', actionItems).item.action = run[1].payload.Action]_vars

C8_Witness ==
  /\ currentScreen = ActionScreen
  /\ lastMsg = "b"
  /\ run # <<>>
  /\ selectedEnv = prodEnv
  /\ envList.cursor = 1
  /\ actionList.cursor = 2
  /\ run[1].payload.Action = ActionComplete

\* C9: "b" on the prompt screen returns to the action screen.
C9_BackFromPrompt ==
  [][(currentScreen = PromptScreen /\ lastMsg' = "b") => currentScreen' = ActionScreen]_vars

\* C10: when get-caller-identity succeeds, sso login is not run and the session
\* guard returns no error.
C10_NoLoginWhenSessionValid ==
  (run # <<>> /\ run[1].world.lookPath /\ run[1].world.identity)
    => /\ \A i \in 1..Len(run[1].calls) :
            run[1].calls[i] # "aws sso login --profile " \o profileMap[run[1].env]
       /\ run[1].ssoErr = NoErr
       /\ \A i \in 1..Len(lambdaOutput) :
            lambdaOutput[i] \notin {"SSO session expired. Logging in...", "SSO login successful"}

C10_Witness ==
  /\ run # <<>>
  /\ run[1].world.identity
  /\ Len(run[1].calls) = 4
  /\ run[1].calls[2] = "aws sts get-caller-identity --profile platform-prod-engineer"
  /\ currentScreen = OutputScreen
  /\ lambdaErr = NoErr

\* the external commands and calls of the invocation that ran last
LoginCall == "aws sso login --profile " \o profileMap[run[1].env]
ConfigCall == "LoadDefaultConfig " \o profileMap[run[1].env]
RemoteCall == "Invoke " \o sweepstakeFunctionName(run[1].env) \o " " \o JsonMarshal(run[1].payload)
\* how often a call was made
Count(calls, c) == Cardinality({i \in 1..Len(calls) : calls[i] = c})
\* the session check was made and failed
SessionCheckFailed == run # <<>> /\ run[1].world.lookPath /\ ~run[1].world.identity

\* C11: when the session check fails and the login then succeeds, the session
\* guard returns no error and the invocation goes on to load the configuration
\* and, when that loads, makes the remote call; when the login fails, the
\* remote call is not made, the login was run once, and the error of the
\* invocation holds the exit error and the captured output of the login.
C11_LoginDecides ==
  SessionCheckFailed
    => /\ Count(run[1].calls, LoginCall) = 1
       /\ lambdaOutput[3] = "SSO session expired. Logging in..."
       /\ (run[1].world.login
             => /\ run[1].ssoErr = NoErr
                /\ lambdaOutput[4] = "SSO login successful"
                /\ run[1].calls[4] = ConfigCall
                /\ (run[1].world.config
                      => Len(run[1].calls) = 5 /\ run[1].calls[5] = RemoteCall))
       /\ (~run[1].world.login
             => /\ Count(run[1].calls, RemoteCall) = 0
                /\ Count(run[1].calls, ConfigCall) = 0
                /\ Len(run[1].calls) = 3
                /\ run[1].err = "SSO login failed: " \o ExitError \o "\nOutput: " \o LoginOutput
                /\ lambdaErr = run[1].err
                /\ Len(lambdaOutput) = 3
                /\ currentScreen = OutputScreen)

C11_Witness ==
  /\ SessionCheckFailed
  /\ ~run[1].world.login
  /\ run[1].calls[3] = "aws sso login --profile platform-nonprod-engineer"
  /\ lambdaErr = "SSO login failed: exit status 1\nOutput: sso login output"

\* the remote call was made and did not return
TransportFailed ==
  /\ run # <<>>
  /\ run[1].world.lookPath /\ (run[1].world.identity \/ run[1].world.login)
  /\ run[1].world.config /\ ~run[1].world.invoke

\* C12: one valid confirm dispatches one invocation, which runs once and makes
\* the remote call at most once; when the remote call fails, it was made once,
\* the invocation returns the wrapped error, and the result leaves nothing in
\* flight and no command behind: the program waits on the output screen.
C12_OneRemoteCall ==
  /\ Len(pending) + Len(run) <= 1
  /\ (run # <<>>
        => /\ Count(run[1].calls, RemoteCall) <= 1
           /\ pending = <<>>
           /\ cmd = NilCmd
           /\ currentScreen = OutputScreen)
  /\ (TransportFailed
        => /\ Count(run[1].calls, RemoteCall) = 1
           /\ run[1].calls[Len(run[1].calls)] = RemoteCall
           /\ run[1].err = "failed to invoke Lambda: request failed"
           /\ lambdaErr = run[1].err)

C12_Witness ==
  /\ TransportFailed
  /\ ~run[1].world.identity
  /\ Len(run[1].calls) = 5
  /\ lambdaErr = "failed to invoke Lambda: request failed"
  /\ Len(lambdaOutput) = 4

\* the outcomes of an invocation
Outcome ==
  LET w == run[1].world IN
  IF ~w.lookPath THEN "cli missing"
  ELSE IF ~w.identity /\ ~w.login THEN "login failure"
  ELSE IF ~w.config THEN "config failure"
  ELSE IF ~w.invoke THEN "transport failure"
  ELSE "success"

\* C13: whatever the outcome of an invocation (the aws CLI missing, the login
\* failing, the configuration not loading, the remote call failing, success
\* with or without a login), the first two output lines of its result are the
\* environment line and the payload line, in that order; a failure before the
\* remote call returns leaves only those and the lines of the session guard.
C13_FirstTwoLines ==
  run # <<>>
    => /\ Len(lambdaOutput) >= 2
       /\ lambdaOutput[1] = "Environment: " \o run[1].env
       /\ lambdaOutput[2] = "Payload: " \o JsonMarshalIndent(run[1].payload)
       /\ run[1].env = selectedEnv
       /\ (Outcome = "cli missing" => Len(lambdaOutput) = 2 /\ lambdaErr = "AWS CLI not found")
       /\ (Outcome \in {"config failure", "transport failure"}
             => /\ lambdaErr # NoErr
                /\ Len(lambdaOutput) = IF run[1].world.identity THEN 2 ELSE 4)
       /\ (Outcome = "success" => lambdaErr = NoErr /\ Len(lambdaOutput) >= 4)

C13_Witness ==
  /\ run # <<>>
  /\ Outcome = "config failure"
  /\ run[1].world.identity
  /\ lambdaErr = "failed to load AWS config: no such profile"
  /\ lambdaOutput =
       <<"Environment: prod",
         "Payload: {\n  \"action\": \"start\",\n  \"dry_run\": false,\n  \"sweepstake_quest_id\": null,\n  \"duration_minutes\": 50\n}">>

\* the remote call of the invocation that ran last returned
RemoteCallSucceeded == run # <<>> /\ Outcome = "success"
\* the output lines of the session guard come before those of the response
GuardLines == IF run[1].world.identity THEN 0 ELSE 2

\* C14: when the remote call returns a body that is not JSON, the body is
\* appended as it is in a "Raw response" line, after the line reporting the
\* successful call, and the invocation returns no error.
C14_RawResponseShown ==
  (RemoteCallSucceeded /\ ~run[1].world.validJSON)
    => /\ Len(lambdaOutput) >= 4 + GuardLines
       /\ lambdaOutput[3 + GuardLines] = "Lambda invocation successful!"
       /\ lambdaOutput[4 + GuardLines] = "Raw response: " \o ResponseBody(run[1].world)
       /\ run[1].err = NoErr
       /\ lambdaErr = NoErr
       /\ currentScreen = OutputScreen

C14_Witness ==
  /\ RemoteCallSucceeded
  /\ ~run[1].world.validJSON
  /\ ~run[1].world.functionError
  /\ run[1].world.logResult = "nil"
  /\ Len(lambdaOutput) = 4
  /\ lambdaOutput[4] = "Raw response: not json"
  /\ lambdaErr = NoErr

\* C15: when the remote call returns a log blob that does not decode, its
\* last output line reports the decode error, the logs stay empty and the
\* invocation returns no error.
C15_BadLogsReported ==
  (RemoteCallSucceeded /\ run[1].world.logResult = "invalid")
    => /\ lambdaOutput[Len(lambdaOutput)]
            = "Error decoding logs: failed to decode base64: illegal base64 data"
       /\ Len(lambdaOutput) = 5 + GuardLines + (IF run[1].world.functionError THEN 1 ELSE 0)
       /\ lambdaLogs = ""
       /\ run[1].err = NoErr
       /\ lambdaErr = NoErr

C15_Witness ==
  /\ RemoteCallSucceeded
  /\ run[1].world.logResult = "invalid"
  /\ run[1].world.validJSON
  /\ run[1].world.identity
  /\ Len(lambdaOutput) = 5
  /\ lambdaLogs = ""
  /\ lambdaErr = NoErr

\* C16: when the remote function reports a function error, the error is
\* appended as an output line after the response line, the invocation returns
\* no error, a log blob is still decoded into the logs (or its decode error
\* reported), and the controller shows the output screen.
C16_FunctionErrorShown ==
  (RemoteCallSucceeded /\ run[1].world.functionError)
    => /\ Len(lambdaOutput) >= 5 + GuardLines
       /\ lambdaOutput[4 + GuardLines]
            = (IF run[1].world.validJSON THEN "Response: " ELSE "Raw response: ")
                \o ResponseBody(run[1].world)
       /\ lambdaOutput[5 + GuardLines] = "Function error: " \o FunctionErrorText
       /\ run[1].err = NoErr
       /\ lambdaErr = NoErr
       /\ (run[1].world.logResult = "valid" => lambdaLogs = DecodedLogs)
       /\ (run[1].world.logResult = "invalid"
             => Len(lambdaOutput) = 6 + GuardLines /\ lambdaLogs = "")
       /\ (run[1].world.logResult = "nil" => lambdaLogs = "")
       /\ currentScreen = OutputScreen
       /\ lastMsg = "lambdaResult"

C16_Witness ==
  /\ RemoteCallSucceeded
  /\ run[1].world.functionError
  /\ run[1].world.logResult = "valid"
  /\ currentScreen = OutputScreen
  /\ lambdaOutput[5] = "Function error: Unhandled"
  /\ lambdaLogs = DecodedLogs
  /\ lambdaErr = NoErr

\* C17: the environment is stored by the confirm on the environment screen,
\* which moves to the action screen; once stored it never changes, the
\* environment screen is never shown again, and every invocation dispatched
\* or run is given the stored environment.
C17_EnvironmentChosenOnce ==
  [][/\ (selectedEnv = ""
          => /\ currentScreen = EnvironmentScreen
             /\ (selectedEnv' # ""
                   => /\ lastMsg' = "enter"
                      /\ selectedEnv' = SelectedItem(envList, envItems).item.action
                      /\ currentScreen' = ActionScreen))
     /\ (selectedEnv # ""
          => /\ selectedEnv' = selectedEnv
             /\ currentScreen # EnvironmentScreen
             /\ currentScreen' # EnvironmentScreen)
     /\ (\A i \in 1..Len(pending') : pending'[i].env = selectedEnv' /\ selectedEnv' # "")
     /\ (run' # <<>> => run'[1].env = selectedEnv')]_vars

C17_Witness ==
  /\ selectedEnv = prodEnv
  /\ run # <<>>
  /\ run[1].env = prodEnv
  /\ Len(pending) = 1
  /\ pending[1].env = prodEnv
  /\ currentScreen = LoadingScreen

RECURSIVE Backspaces(_)
\* n presses of backspace
Backspaces(n) == IF n = 0 THEN <<>> ELSE <<"backspace">> \o Backspaces(n - 1)

RECURSIVE Walk(_, _)
\* Update applied to the keys of a route until one of them ends the program
Walk(r, keys) ==
  IF keys = <<>> \/ r.cmd.kind = "quit" THEN r
  ELSE Walk(Update(r.m, KeyMsg(Head(keys))), Tail(keys))

\* keys that take the user from a screen to the next invocation: leave the
\* output screen, leave a filter, confirm what is highlighted, replace the
\* prompt text by a number, confirm
WayToInvocation ==
  LET leave(l) == IF l.filterState = "Filtering" THEN <<"esc">> ELSE <<>>
      fromAction == leave(actionList) \o <<"enter", "5", "enter">>
  IN CASE currentScreen = EnvironmentScreen -> leave(envList) \o <<"enter">> \o fromAction
       [] currentScreen = ActionScreen -> fromAction
       [] currentScreen = PromptScreen -> Backspaces(Len(promptInput)) \o <<"5", "enter">>
       [] currentScreen = OutputScreen -> <<"b">> \o fromAction
       [] OTHER -> <<>>

\* the way to the next invocation dispatches one and ends the program nowhere
CanInvokeAgain == Walk([m |-> M, cmd |-> NilCmd], WayToInvocation).cmd.kind = "batch"

\* C18: the loading screen is left only by the result of the invocation, to
\* the output screen; an invocation in flight completing, every loading state
\* is followed by the output screen; and wherever the program has not ended,
\* it is either loading or the user has keys that dispatch another invocation:
\* from the output screen "b" leads to the action screen and on from there.
C18_LoadingEndsInResult ==
  /\ [][(currentScreen = LoadingScreen /\ currentScreen' # LoadingScreen)
          => lastMsg' = "lambdaResult" /\ currentScreen' = OutputScreen]_vars
  /\ ((currentScreen = LoadingScreen) ~> (currentScreen = OutputScreen))
  /\ []((~quit /\ currentScreen # LoadingScreen) => CanInvokeAgain)
  /\ []((~quit /\ currentScreen = OutputScreen)
          => Update(M, KeyMsg("b")).m.currentScreen = ActionScreen)

C18_Witness ==
  /\ currentScreen = OutputScreen
  /\ lastMsg = "lambdaResult"
  /\ run # <<>>
  /\ ~quit
  /\ CanInvokeAgain
  /\ lambdaErr = NoErr
  /\ selectedAction = ActionStart

\* C19: an invocation is in flight exactly when the loading screen is shown;
\* the loading screen is entered only by the step that dispatches an
\* invocation, and the result of an invocation is handed to Update only on
\* the loading screen.
C19_PendingIffLoading ==
  [][/\ ((pending # <<>>) <=> (currentScreen = LoadingScreen))
     /\ ((pending' # <<>>) <=> (currentScreen' = LoadingScreen))
     /\ ((currentScreen # LoadingScreen /\ currentScreen' = LoadingScreen)
          => /\ cmd'.kind = "batch"
             /\ pending = <<>>
             /\ pending' = cmd'.invoke
             /\ currentScreen = PromptScreen
             /\ lastMsg' = "enter")
     /\ (lastMsg' = "lambdaResult"
          => currentScreen = LoadingScreen /\ currentScreen' = OutputScreen)]_vars

C19_Witness ==
  /\ currentScreen = LoadingScreen
  /\ Len(pending) = 1
  /\ lastMsg = "spinner.TickMsg"
  /\ lambdaErr = "AWS CLI not found"
  /\ selectedAction = ActionProcess

\* C20: a step that dispatches an invocation is taken with an environment of
\* dev and prod selected, and the payload carries the selected action, which
\* is start, process or complete and the action highlighted in the action
\* list, and the prompt asked for the quest id (process, complete) or the
\* duration in minutes (start); a step from the action screen to the prompt
\* stores the highlighted action, sets that question and leaves the validation
\* message and the text empty.
C20_DispatchMatchesSelection ==
  [][/\ (cmd'.kind = "batch"
          => /\ selectedEnv \in {devEnv, prodEnv}
             /\ cmd'.invoke[1].env = selectedEnv
             /\ cmd'.invoke[1].payload.Action = selectedAction
             /\ selectedAction \in {ActionStart, ActionProcess, ActionComplete}
             /\ selectedAction = SelectedItem(actionList, actionItems).item.action
             /\ (selectedAction \in {ActionProcess, ActionComplete}
                   => promptQuestion = "Please enter sweepstake quest ID")
             /\ (selectedAction = ActionStart
                   => promptQuestion = "Please enter sweepstake duration in minutes")
             /\ UNCHANGED <<selectedEnv, selectedAction, promptQuestion>>)
     /\ ((currentScreen = ActionScreen /\ currentScreen' = PromptScreen)
          => /\ lastMsg' = "enter"
             /\ selectedAction' = SelectedItem(actionList, actionItems).item.action
             /\ promptQuestion' = (IF selectedAction' = ActionStart
                                   THEN "Please enter sweepstake duration in minutes"
                                   ELSE "Please enter sweepstake quest ID")
             /\ promptMessage' = ""
             /\ promptInput' = <<>>)]_vars

C20_Witness ==
  /\ currentScreen = PromptScreen
  /\ lastMsg = "enter"
  /\ cmd = BlinkCmd
  /\ run # <<>>
  /\ run[1].payload.Action = ActionProcess
  /\ selectedAction = ActionStart
  /\ promptQuestion = "Please enter sweepstake duration in minutes"
  /\ promptMessage = ""
  /\ promptInput = <<>>

====
